---- MODULE Spec2Model ----
(***************************************************************************)
(* JURISRAG: the ingestion entry point (load.py) and the query entry point *)
(* (main.py) as one state machine over a shared working directory.         *)
(*                                                                         *)
(* One process runs at a time.  The disk (the data directory and the       *)
(* 'vectorstore' path) survives from one run to the next; everything else  *)
(* is the running process's own state.  No other process touches the disk. *)
(* Every call into the libraries or the remote services draws its outcome  *)
(* when it is made and records it in calls.  Outcomes are integers:        *)
(* -1 the call raised, 0/1 false/true, n >= 0 a length.                    *)
(*                                                                         *)
(* Scope: the stage functions, the branch in main(), the interactive loop  *)
(* and the ends of the two scripts.  A KeyboardInterrupt is modelled where *)
(* main() handles it, inside the loop; timing and log-file contents are    *)
(* not modelled.                                                           *)
(***************************************************************************)
EXTENDS Integers, Sequences, FiniteSets

\* ---- bounds of the model ----
MaxFiles == 2
MaxChunks == 2
MaxQuestions == 2
MaxSources == 1

\* ---- program constants: the defaults of split_documents in load.py and main.py ----
ChunkSize == 1000
ChunkOverlap == 200
MainChunkSize == 1000
MainChunkOverlap == 200

Placeholder == "your_openai_api_key_here"
NoKey == "<None>"
\* values of OPENAI_API_KEY a run can start with (NoKey: the variable is unset)
Keys == {NoKey, "", Placeholder, "sk-live"}

\* logging.basicConfig(level=logging.INFO): the numeric levels of the logging module
LevelNo(l) ==
    CASE l = "DEBUG" -> 10
      [] l = "INFO" -> 20
      [] l = "WARNING" -> 30
      [] l = "ERROR" -> 40
LogLevel == "INFO"
\* a record reaches the handlers (the log file and stdout) iff its level is enabled
LoggerEmits(l) == LevelNo(l) >= LevelNo(LogLevel)

\* ---- console output: a message is its severity and its text ----
print_error(t) == [level |-> "error", text |-> t]
print_warning(t) == [level |-> "warning", text |-> t]
print_success(t) == [level |-> "success", text |-> t]

\* ---- strings of the interactive loop, as sequences of characters ----
Upper == <<"A","B","C","D","E","F","G","H","I","J","K","L","M",
           "N","O","P","Q","R","S","T","U","V","W","X","Y","Z">>
LowerLetters == <<"a","b","c","d","e","f","g","h","i","j","k","l","m",
                  "n","o","p","q","r","s","t","u","v","w","x","y","z">>
Whitespace == {" ", "\t", "\n"}

LowerChar(c) ==
    IF \E i \in 1..26 : Upper[i] = c
    THEN LowerLetters[CHOOSE i \in 1..26 : Upper[i] = c]
    ELSE c

\* str.lower()
Lower(s) == [i \in 1..Len(s) |-> LowerChar(s[i])]

RECURSIVE LStrip(_)
LStrip(s) == IF s # <<>> /\ Head(s) \in Whitespace THEN LStrip(Tail(s)) ELSE s
RECURSIVE RStrip(_)
RStrip(s) ==
    IF s # <<>> /\ s[Len(s)] \in Whitespace THEN RStrip(SubSeq(s, 1, Len(s) - 1)) ELSE s
\* str.strip()
Strip(s) == RStrip(LStrip(s))

QuitWords == { <<"s","a","i","r">>, <<"e","x","i","t">>, <<"q","u","i","t">> }
ClearWords == { <<"l","i","m","p","a","r">>, <<"c","l","e","a","r">>, <<"c","l","s">> }

\* if not query
IsBlank(q) == q = <<>>
\* query.lower() in ['sair', 'exit', 'quit']
IsQuit(q) == Lower(q) \in QuitWords
\* query.lower() in ['limpar', 'clear', 'cls']
IsClear(q) == Lower(q) \in ClearWords

\* the lines typed at the prompt
BlankLines == { <<>>, <<" ", "\t">> }
QuitLines == { <<"s","a","i","r">>, <<" ","E","x","i","t"," ">> }
ClearLines == { <<"l","i","m","p","a","r">>, <<"C","L","E","A","R">>, <<" ","C","l","s">> }
QuestionLines == { <<"o"," ","q","u","e","?">>, <<"c","l","s"," ","?">> }
Lines == BlankLines \cup QuitLines \cup ClearLines \cup QuestionLines


\* ---- state ----
VARIABLES
    vectorstore,     \* disk: the path 'vectorstore': "absent", "index" or "corrupt"
    dataFiles,       \* disk: -1 the data directory is missing, else its .docx count
    prog,            \* the running entry point: "none", "load" or "main"
    pc,              \* the stage the process is about to run
    key,             \* OPENAI_API_KEY of this run
    vsAtStart,       \* the disk's vectorstore when this run started
    calls,           \* the external calls of this run, in order: <<name, outcome>>
    stages,          \* the stage functions this run has entered, in order
    params,          \* the (chunk_size, chunk_overlap) handed to the splitter
    docs,            \* len(documents)
    chunks,          \* len(chunks)
    vsLocal,         \* the process's vectorstore variable: "none", "loaded", "built"
    out,             \* the levelled messages printed before the interactive loop
    exitStatus,      \* -1 while running, else the process's exit status
    question_count,  \* main(): question_count
    chainInvoked,    \* calls of qa_chain in this run
    chainReturned,   \* calls of qa_chain that returned a result
    reported,        \* the count reported when the session ended, -1 before
    turn,            \* what the last pass of the interactive loop read and printed
    prev             \* the run before this one

vars == <<vectorstore, dataFiles, prog, pc, key, vsAtStart, calls, stages, params,
          docs, chunks, vsLocal, out, exitStatus, question_count, chainInvoked,
          chainReturned, reported, turn, prev>>

procVars == <<calls, stages, params, docs, chunks, vsLocal, out, exitStatus>>
loopVars == <<question_count, chainInvoked, chainReturned, reported, turn>>

Call(name, outcome) == Append(calls, <<name, outcome>>)
Called(cs, name) == \E i \in 1..Len(cs) : cs[i][1] = name
OutcomeOf(cs, name) == cs[CHOOSE i \in 1..Len(cs) : cs[i][1] = name][2]

NoTurn == [event |-> "none", raw |-> <<>>, invoked |-> FALSE, printed |-> {},
           before |-> 0]
NoPrev == [prog |-> "none", key |-> NoKey, calls |-> <<>>, stages |-> <<>>,
           params |-> <<>>, result |-> "none", success |-> FALSE]

\* the stage functions and the external calls of the build pipeline
BuildStageNames == {"validate_environment", "load_documents", "split_documents",
                   "create_vectorstore"}
BuildCallNames == {"exists", "loader.load", "split_documents", "from_documents",
                  "save_local"}
BuildStages(st) == LET Keep(x) == x \in BuildStageNames IN SelectSeq(st, Keep)
BuildCalls(cs) == LET Keep(c) == c[1] \in BuildCallNames IN SelectSeq(cs, Keep)

\* ---- predicates of the code ----
\* (each is preceded, where one is used, by the faulty variant that the
\* properties below must tell apart from it)
\* if not api_key or api_key == "your_openai_api_key_here"
ApiKeyInvalidNoPlaceholder(k) == k = NoKey \/ k = ""
ApiKeyInvalid(k) == k = NoKey \/ k = "" \/ k = Placeholder

\* os.path.exists(data_dir)
DataDirExists(df) == df # -1

\* if not documents
NoDocuments(d) == d = 0

\* if not chunks
NoChunksNever(c) == FALSE
NoChunks(c) == c = 0

\* os.path.exists("vectorstore")
VectorstoreExistsNegated(vs) == vs = "absent"
VectorstoreExists(vs) == vs # "absent"

\* vectorstore.save_local("vectorstore"): the disk after the call, by its outcome
\* (1 written, -2 raised after a partial write, -1 raised before writing)
SaveLocalElsewhere(vs, s) == vs
SaveLocal(vs, s) ==
    CASE s = 1 -> "index"
      [] s = -2 -> "corrupt"
      [] OTHER -> vs

\* FAISS.load_local("vectorstore", embeddings, allow_dangerous_deserialization=True)
\* raises iff what is on disk is no index
LoadLocalAlwaysRaises(vs) == TRUE
LoadLocalRaises(vs) == vs # "index"

\* ---- how a run ends, and the summary the next run sees ----
Persisted == Called(calls, "save_local") /\ vectorstore = "index"

BuildResult ==
    IF prog = "load"
    THEN IF exitStatus = 1 THEN "exit1"
         ELSE IF exitStatus = 0 THEN (IF Persisted THEN "persisted" ELSE "not_persisted")
         ELSE "running"
    ELSE IF Called(calls, "exists_vectorstore") /\ OutcomeOf(calls, "exists_vectorstore") = 1
         THEN "none"
         ELSE IF vsLocal = "built"
         THEN (IF Persisted THEN "persisted" ELSE "not_persisted")
         ELSE IF exitStatus = 1 THEN "exit1"
         ELSE "running"

RunSuccess ==
    \/ prog = "load" /\ exitStatus = 0
    \/ prog = "main" /\ vsLocal = "built"

Summary ==
    IF prog = "none" THEN NoPrev
    ELSE [prog |-> prog, key |-> key, calls |-> BuildCalls(calls),
          stages |-> BuildStages(stages), params |-> params, result |-> BuildResult,
          success |-> RunSuccess]

Init ==
    /\ vectorstore \in {"absent", "index", "corrupt"}
    /\ dataFiles \in -1..MaxFiles
    /\ prog = "none"
    /\ pc = "idle"
    /\ key = NoKey
    /\ vsAtStart = vectorstore
    /\ calls = <<>>
    /\ stages = <<>>
    /\ params = <<>>
    /\ docs = 0
    /\ chunks = 0
    /\ vsLocal = "none"
    /\ out = {}
    /\ exitStatus = -1
    /\ question_count = 0
    /\ chainInvoked = 0
    /\ chainReturned = 0
    /\ reported = -1
    /\ turn = NoTurn
    /\ prev = NoPrev

\* the shell starts an entry point once the previous process has ended
StartRun(p, k) ==
    /\ pc \in {"idle", "exited"}
    /\ prev' = Summary
    /\ prog' = p
    /\ key' = k
    /\ pc' = "validate_environment"
    /\ vsAtStart' = vectorstore
    /\ calls' = <<>>
    /\ stages' = <<>>
    /\ params' = <<>>
    /\ docs' = 0
    /\ chunks' = 0
    /\ vsLocal' = "none"
    /\ out' = {}
    /\ exitStatus' = -1
    /\ question_count' = 0
    /\ chainInvoked' = 0
    /\ chainReturned' = 0
    /\ reported' = -1
    /\ turn' = NoTurn
    /\ UNCHANGED <<vectorstore, dataFiles>>

\* sys.exit(status) after printing msg
Exit(msg, status) ==
    /\ out' = out \cup {msg}
    /\ pc' = "exited"
    /\ exitStatus' = status

\* the stage printed msg and returned; the caller goes on to stage next
Continue(msg, next) ==
    /\ out' = out \cup {msg}
    /\ pc' = next
    /\ exitStatus' = exitStatus


\* ======================= load.py =======================

\* load.py validate_environment()
load_py_validate_environment ==
    /\ prog = "load" /\ pc = "validate_environment"
    /\ stages' = Append(stages, "validate_environment")
    /\ IF ApiKeyInvalid(key)
       THEN Exit(print_error("OpenAI API key not configured!"), 1)
       ELSE Continue(print_success("OpenAI API key found"), "load_documents")
    /\ UNCHANGED <<vectorstore, dataFiles, prog, key, vsAtStart, calls, params, docs,
                   chunks, vsLocal, prev>>
    /\ UNCHANGED loopVars

\* load.py load_documents(): o is what loader.load() does (-1 raises, else len)
load_py_load_documents ==
    /\ prog = "load" /\ pc = "load_documents"
    /\ stages' = Append(stages, "load_documents")
    /\ \E o \in -1..dataFiles :
         IF ~DataDirExists(dataFiles)
         THEN /\ calls' = Call("exists", 0)
              /\ Exit(print_error("Directory not found"), 1)
              /\ docs' = docs
         ELSE IF dataFiles = 0
         THEN /\ calls' = Call("exists", 1) \o << <<"rglob", 0>> >>
              /\ Exit(print_error("No .docx files found"), 1)
              /\ docs' = docs
         ELSE /\ calls' = Call("exists", 1) \o << <<"rglob", dataFiles>>, <<"loader.load", o>> >>
              /\ IF o = -1
                 THEN Exit(print_error("Error loading documents"), 1) /\ docs' = docs
                 ELSE IF NoDocuments(o)
                 THEN Exit(print_warning("Files found but no content loaded"), 1)
                      /\ docs' = o
                 ELSE Continue(print_success("Successfully loaded documents"),
                               "split_documents")
                      /\ docs' = o
    /\ UNCHANGED <<vectorstore, dataFiles, prog, key, vsAtStart, params, chunks,
                   vsLocal, prev>>
    /\ UNCHANGED loopVars

\* load.py split_documents(docs): o is what text_splitter.split_documents does
load_py_split_documents ==
    /\ prog = "load" /\ pc = "split_documents"
    /\ stages' = Append(stages, "split_documents")
    /\ params' = <<ChunkSize, ChunkOverlap>>
    /\ \E o \in -1..MaxChunks :
         /\ calls' = Call("split_documents", o)
         /\ IF o = -1
            THEN Exit(print_error("Error splitting documents"), 1) /\ chunks' = chunks
            ELSE IF NoChunks(o)
            THEN Exit(print_error("No chunks created from documents"), 1) /\ chunks' = o
            ELSE Continue(print_success("Created chunks"), "create_vectorstore")
                 /\ chunks' = o
    /\ UNCHANGED <<vectorstore, dataFiles, prog, key, vsAtStart, docs, vsLocal, prev>>
    /\ UNCHANGED loopVars

\* load.py create_vectorstore(chunks): e is what FAISS.from_documents does,
\* s what save_local does; the save is verified and a missing directory only warned of
load_py_create_vectorstore ==
    /\ prog = "load" /\ pc = "create_vectorstore"
    /\ stages' = Append(stages, "create_vectorstore")
    /\ \E e \in {-1, 1}, s \in {-2, -1, 1} :
         IF e = -1
         THEN /\ calls' = Call("from_documents", -1)
              /\ Exit(print_error("Error creating vectorstore"), 1)
              /\ UNCHANGED <<vectorstore, vsLocal>>
         ELSE /\ calls' = Call("from_documents", 1) \o << <<"save_local", s>> >>
              /\ vectorstore' = SaveLocal(vectorstore, s)
              /\ IF s # 1
                 THEN Exit(print_error("Error creating vectorstore"), 1)
                      /\ vsLocal' = vsLocal
                 ELSE /\ vsLocal' = "built"
                      /\ IF VectorstoreExists(vectorstore')
                         THEN Continue(print_success("Vectorstore saved successfully"),
                                       "finish")
                         ELSE Continue(print_warning(
                                         "Vectorstore directory not found after save"),
                                       "finish")
    /\ UNCHANGED <<dataFiles, prog, key, vsAtStart, params, docs, chunks, prev>>
    /\ UNCHANGED loopVars

\* load.py __main__ after the last stage: the success banner, then a normal end
load_py_main_finish ==
    /\ prog = "load" /\ pc = "finish"
    /\ Exit(print_success("SUCCESS! Vectorstore created and saved successfully"), 0)
    /\ UNCHANGED <<vectorstore, dataFiles, prog, key, vsAtStart, calls, stages, params,
                   docs, chunks, vsLocal, prev>>
    /\ UNCHANGED loopVars


\* ======================= main.py =======================

\* main.py validate_environment()
main_py_validate_environment ==
    /\ prog = "main" /\ pc = "validate_environment"
    /\ stages' = Append(stages, "validate_environment")
    /\ IF ApiKeyInvalid(key)
       THEN Exit(print_error("OpenAI API key not configured!"), 1)
       ELSE /\ pc' = "main_branch"
            /\ UNCHANGED <<out, exitStatus>>
    /\ UNCHANGED <<vectorstore, dataFiles, prog, key, vsAtStart, calls, params, docs,
                   chunks, vsLocal, prev>>
    /\ UNCHANGED loopVars

\* main.py main(): if os.path.exists("vectorstore") ... else ...
main_py_main_branch ==
    /\ prog = "main" /\ pc = "main_branch"
    /\ IF VectorstoreExists(vectorstore)
       THEN /\ calls' = Call("exists_vectorstore", 1)
            /\ pc' = "load_vectorstore"
            /\ out' = out
       ELSE /\ calls' = Call("exists_vectorstore", 0)
            /\ pc' = "load_documents"
            /\ out' = out \cup {print_warning("No vectorstore found, creating new one...")}
    /\ UNCHANGED <<vectorstore, dataFiles, prog, key, vsAtStart, stages, params, docs,
                   chunks, vsLocal, exitStatus, prev>>
    /\ UNCHANGED loopVars

\* main.py load_vectorstore()
main_py_load_vectorstore ==
    /\ prog = "main" /\ pc = "load_vectorstore"
    /\ stages' = Append(stages, "load_vectorstore")
    /\ IF ~VectorstoreExists(vectorstore)
       THEN /\ calls' = calls
            /\ Exit(print_error("Vectorstore not found!"), 1)
            /\ vsLocal' = vsLocal
       ELSE IF LoadLocalRaises(vectorstore)
       THEN /\ calls' = Call("load_local", -1)
            /\ Exit(print_error("Error loading vectorstore"), 1)
            /\ vsLocal' = vsLocal
       ELSE /\ calls' = Call("load_local", 1)
            /\ Continue(print_success("Vectorstore loaded successfully"),
                        "create_rag_chain")
            /\ vsLocal' = "loaded"
    /\ UNCHANGED <<vectorstore, dataFiles, prog, key, vsAtStart, params, docs, chunks,
                   prev>>
    /\ UNCHANGED loopVars

\* main.py load_documents(): no directory scan; o is what loader.load() does
main_py_load_documents ==
    /\ prog = "main" /\ pc = "load_documents"
    /\ stages' = Append(stages, "load_documents")
    /\ \E o \in -1..dataFiles :
         IF ~DataDirExists(dataFiles)
         THEN /\ calls' = Call("exists", 0)
              /\ Exit(print_error("Directory not found"), 1)
              /\ docs' = docs
         ELSE /\ calls' = Call("exists", 1) \o << <<"loader.load", o>> >>
              /\ IF o = -1
                 THEN Exit(print_error("Error loading documents"), 1) /\ docs' = docs
                 ELSE IF NoDocuments(o)
                 THEN Exit(print_error("No documents loaded"), 1) /\ docs' = o
                 ELSE Continue(print_success("Loaded documents"), "split_documents")
                      /\ docs' = o
    /\ UNCHANGED <<vectorstore, dataFiles, prog, key, vsAtStart, params, chunks,
                   vsLocal, prev>>
    /\ UNCHANGED loopVars

\* RecursiveCharacterTextSplitter(chunk_size=..., chunk_overlap=...) in main.py
MainSplitterParamsSwapped == <<MainChunkOverlap, MainChunkSize>>
MainSplitterParams == <<MainChunkSize, MainChunkOverlap>>

\* main.py split_documents(docs)
main_py_split_documents ==
    /\ prog = "main" /\ pc = "split_documents"
    /\ stages' = Append(stages, "split_documents")
    /\ params' = MainSplitterParams
    /\ \E o \in -1..MaxChunks :
         /\ calls' = Call("split_documents", o)
         /\ IF o = -1
            THEN Exit(print_error("Error splitting documents"), 1) /\ chunks' = chunks
            ELSE IF NoChunks(o)
            THEN Exit(print_error("No chunks created"), 1) /\ chunks' = o
            ELSE Continue(print_success("Created chunks"), "create_vectorstore")
                 /\ chunks' = o
    /\ UNCHANGED <<vectorstore, dataFiles, prog, key, vsAtStart, docs, vsLocal, prev>>
    /\ UNCHANGED loopVars

\* main.py create_vectorstore(chunks): the save is not verified
main_py_create_vectorstore ==
    /\ prog = "main" /\ pc = "create_vectorstore"
    /\ stages' = Append(stages, "create_vectorstore")
    /\ \E e \in {-1, 1}, s \in {-2, -1, 1} :
         IF e = -1
         THEN /\ calls' = Call("from_documents", -1)
              /\ Exit(print_error("Error creating vectorstore"), 1)
              /\ UNCHANGED <<vectorstore, vsLocal>>
         ELSE /\ calls' = Call("from_documents", 1) \o << <<"save_local", s>> >>
              /\ vectorstore' = SaveLocal(vectorstore, s)
              /\ IF s # 1
                 THEN Exit(print_error("Error creating vectorstore"), 1)
                      /\ vsLocal' = vsLocal
                 ELSE Continue(print_success("Vectorstore created and saved"),
                               "create_rag_chain")
                      /\ vsLocal' = "built"
    /\ UNCHANGED <<dataFiles, prog, key, vsAtStart, params, docs, chunks, prev>>
    /\ UNCHANGED loopVars

\* main.py create_rag_chain(vectorstore): o is what building the chain does
main_py_create_rag_chain ==
    /\ prog = "main" /\ pc = "create_rag_chain"
    /\ stages' = Append(stages, "create_rag_chain")
    /\ \E o \in {-1, 1} :
         /\ calls' = Call("from_chain_type", o)
         /\ IF o = -1
            THEN Exit(print_error("Error creating RAG chain"), 1)
            ELSE Continue(print_success("RAG chain created successfully"), "loop")
    /\ UNCHANGED <<vectorstore, dataFiles, prog, key, vsAtStart, params, docs, chunks,
                   vsLocal, prev>>
    /\ UNCHANGED loopVars


\* question_count after qa_chain(...) ended with outcome co (>= 0: it returned)
QuestionCountEager(n, co) == n + 1
QuestionCountAfter(n, co) == IF co >= 0 THEN n + 1 ELSE n

\* what one answered question puts on stdout; n = len(result['source_documents']).
\* The list of sources goes to logger.debug only, and the logger drops it unless
\* DEBUG is enabled.
AnswerOutput(n) ==
    {"answer"} \cup
    (IF n > 0
     THEN {"source_count"} \cup (IF LoggerEmits("DEBUG") THEN {"source_list"} ELSE {})
     ELSE {})

\* what a pass of the loop leaves behind; before is question_count on entering it
Turn(ev, raw, inv, pr) ==
    [event |-> ev, raw |-> raw, invoked |-> inv, printed |-> pr,
     before |-> question_count]

\* the session ends: the count is reported and main() returns
EndSession ==
    /\ reported' = question_count
    /\ pc' = "exited"
    /\ exitStatus' = 0

\* main.py main(): one pass of the while loop.  input() raises, or returns the
\* line raw; for a question co is what qa_chain does (-2 interrupted, -1 raises,
\* else the number of source documents in the result)
main_py_loop_turn ==
    /\ prog = "main" /\ pc = "loop"
    /\ \/ /\ turn' = Turn("KeyboardInterrupt", <<>>, FALSE, {"interrupted"})
          /\ EndSession
          /\ UNCHANGED <<question_count, chainInvoked, chainReturned>>
       \/ /\ turn' = Turn("EOFError", <<>>, FALSE, {"error"})
          /\ UNCHANGED <<question_count, chainInvoked, chainReturned, reported, pc,
                         exitStatus>>
       \/ \E raw \in Lines :
            LET query == Strip(raw) IN
            IF IsBlank(query)
            THEN /\ turn' = Turn("line", raw, FALSE, {})
                 /\ UNCHANGED <<question_count, chainInvoked, chainReturned, reported,
                                pc, exitStatus>>
            ELSE IF IsQuit(query)
            THEN /\ turn' = Turn("line", raw, FALSE, {"goodbye"})
                 /\ EndSession
                 /\ UNCHANGED <<question_count, chainInvoked, chainReturned>>
            ELSE IF IsClear(query)
            THEN /\ turn' = Turn("line", raw, FALSE, {"cleared"})
                 /\ UNCHANGED <<question_count, chainInvoked, chainReturned, reported,
                                pc, exitStatus>>
            ELSE /\ chainInvoked < MaxQuestions
                 /\ \E co \in -2..MaxSources :
                      /\ chainInvoked' = chainInvoked + 1
                      /\ chainReturned' = IF co >= 0 THEN chainReturned + 1
                                          ELSE chainReturned
                      /\ question_count' = QuestionCountAfter(question_count, co)
                      /\ IF co = -2
                         THEN /\ turn' = Turn("chain_interrupted", raw, TRUE, {"interrupted"})
                              /\ reported' = question_count'
                              /\ pc' = "exited"
                              /\ exitStatus' = 0
                         ELSE IF co = -1
                         THEN /\ turn' = Turn("chain_raised", raw, TRUE, {"error"})
                              /\ UNCHANGED <<reported, pc, exitStatus>>
                         ELSE /\ turn' = Turn("answered", raw, TRUE, AnswerOutput(co))
                              /\ UNCHANGED <<reported, pc, exitStatus>>
    /\ UNCHANGED <<vectorstore, dataFiles, prog, key, vsAtStart, calls, stages, params,
                   docs, chunks, vsLocal, out, prev>>

Run == \E p \in {"load", "main"}, k \in Keys : StartRun(p, k)

Next ==
    \/ Run
    \/ load_py_validate_environment
    \/ load_py_load_documents
    \/ load_py_split_documents
    \/ load_py_create_vectorstore
    \/ load_py_main_finish
    \/ main_py_validate_environment
    \/ main_py_main_branch
    \/ main_py_load_vectorstore
    \/ main_py_load_documents
    \/ main_py_split_documents
    \/ main_py_create_vectorstore
    \/ main_py_create_rag_chain
    \/ main_py_loop_turn

Spec == Init /\ [][Next]_vars


\* ======================= properties =======================

IsPrefix(a, b) == Len(a) <= Len(b) /\ SubSeq(b, 1, Len(a)) = a
CallNames(cs) == [i \in 1..Len(cs) |-> cs[i][1]]
Entered(st, name) == \E i \in 1..Len(st) : st[i] = name
BadKeys == {NoKey, "", Placeholder}

\* C1: in a run of load.py the stages and their external calls happen in the
\* order validation, directory scan, parse, chunking, embedding, save; a call is
\* made only after every earlier call succeeded with a non-empty result; and the
\* index is written only after validation, a non-empty document list and a
\* non-empty chunk list.
C1_IngestionOrder ==
    prog = "load" =>
      /\ IsPrefix(stages, <<"validate_environment", "load_documents",
                            "split_documents", "create_vectorstore">>)
      /\ IsPrefix(CallNames(calls), <<"exists", "rglob", "loader.load",
                                      "split_documents", "from_documents", "save_local">>)
      /\ \A i \in 1..(Len(calls) - 1) : calls[i][2] >= 1
      /\ calls # <<>> => key \notin BadKeys
      /\ vectorstore # vsAtStart => Called(calls, "save_local")
      /\ Called(calls, "save_local") =>
           /\ key \notin BadKeys
           /\ OutcomeOf(calls, "loader.load") >= 1 /\ docs >= 1
           /\ OutcomeOf(calls, "split_documents") >= 1 /\ chunks >= 1
           /\ OutcomeOf(calls, "from_documents") = 1

C1_Witness ==
    /\ prog = "load" /\ pc = "exited" /\ exitStatus = 0
    /\ Called(calls, "save_local") /\ vsAtStart = "absent" /\ vectorstore = "index"

\* C2: in a run of main.py the loop is entered only with an index loaded from
\* 'vectorstore' or built in this run; the build starts exactly when the path
\* did not exist at startup; when it existed no document is loaded, split or
\* embedded and the path is not written.
BuildStarted == pc = "load_documents" \/ Entered(stages, "load_documents")

C2_QueryIndexOrigin ==
    prog = "main" =>
      /\ pc = "loop" => vsLocal \in {"loaded", "built"}
      /\ vsLocal = "loaded" =>
           vsAtStart # "absent" /\ OutcomeOf(calls, "load_local") = 1
      /\ vsLocal = "built" =>
           vsAtStart = "absent" /\ OutcomeOf(calls, "save_local") = 1
      /\ IF Called(calls, "exists_vectorstore")
         THEN BuildStarted <=> vsAtStart = "absent"
         ELSE ~BuildStarted
      /\ vsAtStart # "absent" =>
           /\ BuildCalls(calls) = <<>>
           /\ vectorstore = vsAtStart
           /\ docs = 0 /\ chunks = 0 /\ params = <<>>

C2_Witness ==
    /\ prog = "main" /\ pc = "loop" /\ vsLocal = "loaded"
    /\ prev.prog = "main" /\ prev.result = "persisted"

\* C5: a run whose OPENAI_API_KEY is unset, empty or the placeholder ends with
\* status 1 in validation, having made no external call and touched nothing;
\* a run with any other key passes validation.
C5_KeyValidation ==
    prog # "none" =>
      /\ stages = <<>> => calls = <<>> /\ pc = "validate_environment"
      /\ stages # <<>> =>
           IF key \in BadKeys
           THEN /\ pc = "exited" /\ exitStatus = 1
                /\ stages = <<"validate_environment">>
                /\ calls = <<>> /\ vectorstore = vsAtStart
                /\ chainInvoked = 0 /\ vsLocal = "none"
           ELSE ~(pc = "exited" /\ stages = <<"validate_environment">>)

C5_Witness ==
    /\ prog = "main" /\ key = Placeholder /\ pc = "exited" /\ exitStatus = 1
    /\ prev.prog = "load" /\ prev.key = "sk-live" /\ Len(prev.stages) > 1

\* C8: when load.py has printed its success banner and ended normally, the
\* path 'vectorstore' exists on disk.
C8_BannerImpliesDirectory ==
    (prog = "load" /\ pc = "exited" /\ exitStatus = 0) => vectorstore # "absent"

C8_Witness ==
    /\ prog = "load" /\ pc = "exited" /\ exitStatus = 0
    /\ print_success("SUCCESS! Vectorstore created and saved successfully") \in out
    /\ vsAtStart = "absent"


\* C6: a run of main.py that follows a successful run of load.py, or a run of
\* main.py that built the index, finds the index at 'vectorstore', loads it, and
\* neither rebuilds it nor calls the document loader.
C6_SaveLoadCycle ==
    (prog = "main" /\ prev.success) =>
      /\ vsAtStart = "index" /\ vectorstore = "index"
      /\ Called(calls, "exists_vectorstore") => OutcomeOf(calls, "exists_vectorstore") = 1
      /\ ~BuildStarted
      /\ BuildCalls(calls) = <<>>
      /\ Entered(stages, "load_vectorstore") =>
           /\ vsLocal = "loaded"
           /\ OutcomeOf(calls, "load_local") = 1
           /\ exitStatus # 1 \/ Entered(stages, "create_rag_chain")

C6_Witness ==
    /\ prog = "main" /\ prev.prog = "load" /\ prev.success
    /\ pc = "loop" /\ vsLocal = "loaded"

\* C7: a finished run of load.py and a finished on-demand build of main.py with
\* the same key, the same data directory and the same outcomes of the external
\* calls they share entered the same pipeline stages, used chunk size 1000 and
\* overlap 200, and either both persisted an index or both ended with status 1.
SameOutcomes(a, b) ==
    \A n \in BuildCallNames :
        (Called(a, n) /\ Called(b, n)) => OutcomeOf(a, n) = OutcomeOf(b, n)

Comparable ==
    /\ prog # "none" /\ prev.prog # "none" /\ prev.prog # prog
    /\ BuildResult \notin {"running", "none"}
    /\ prev.result \notin {"running", "none"}
    /\ prev.key = key
    /\ SameOutcomes(prev.calls, BuildCalls(calls))

C7_SharedPipeline ==
    Comparable =>
      /\ BuildStages(stages) = prev.stages
      /\ params = prev.params
      /\ params \in {<<>>, <<1000, 200>>}
      /\ BuildResult = prev.result
      /\ BuildResult \in {"persisted", "exit1"}

C7_Witness ==
    /\ Comparable /\ prog = "load" /\ BuildResult = "persisted"
    /\ prev.result = "persisted" /\ params = <<1000, 200>>

\* C9: question_count always equals the number of chain calls that returned, and
\* that is the count reported at the end of the session; a blank line or a clear
\* command neither calls the chain nor changes the count; a question whose chain
\* call raises leaves the count unchanged.
C9_AnsweredCount ==
    prog = "main" =>
      /\ question_count = chainReturned
      /\ reported # -1 => reported = chainReturned
      /\ (turn.event = "line" /\ turn.raw \in BlankLines \cup ClearLines) =>
           ~turn.invoked /\ question_count = turn.before
      /\ turn.event = "chain_raised" => question_count = turn.before
      /\ turn.event = "answered" => question_count = turn.before + 1
      /\ turn.invoked => turn.raw \in QuestionLines

C9_Witness ==
    /\ prog = "main" /\ pc = "exited" /\ reported = 1 /\ chainInvoked = 2
    /\ turn.event = "line"

\* C3: every question the chain answers has its answer printed and the list of
\* its source documents printed.
C3_AnswerAndSourceList ==
    turn.event = "answered" => {"answer", "source_list"} \subseteq turn.printed

\* C4: before the interactive loop, a failed stage (a missing data directory, no
\* .docx file, an empty document or chunk list, a raising call) prints an error
\* message and ends the process with status 1; the failed call is the last call
\* of the run.
FailedCall(c) ==
    \/ c[1] \in {"exists", "rglob", "loader.load", "split_documents"} /\ c[2] <= 0
    \/ c[1] \in {"from_documents", "save_local", "load_local", "from_chain_type"} /\ c[2] < 0

C4_FailureExitsWithError ==
    \A i \in 1..Len(calls) :
        FailedCall(calls[i]) =>
          /\ pc = "exited" /\ exitStatus = 1
          /\ i = Len(calls)
          /\ \E m \in out : m.level = "error"

====
